---- MODULE Spec2Model ----
\* The Scratch-link BLE bridge of arduino-create-agent (package labsscratch):
\* the JSON-RPC codec and read loop (jsonrpc.go), the parameter decoders
\* (types.go) and the per-connection dispatcher with its scan goroutines
\* (GetHandler, startAsyncScan, matchDevice).
EXTENDS Integers, Sequences, FiniteSets, TLC

\* ---------------------------------------------------------------- bounds
\* Frames read from all connections together.
MaxFrames == 2
\* Advertisements the adapter reports to scan callbacks, in total.
MaxCallbacks == 1
\* Value changes the connected devices report, in total.
MaxChanges == 1
\* Frames read from the connection of a client that uses notifications.
MaxNotifyFrames == 3
\* Value changes the device of that client reports.
MaxNotifyChanges == 2
\* Frames read from the connection of a client that writes and reads back.
MaxEchoFrames == 3
\* Frames read from the connection of a client that discovers.
MaxDiscoverFrames == 2
\* Advertisements the adapter reports to the scans of that client.
MaxDiscoverCallbacks == 1
\* Frames read from the connection of a client that sends incomplete params.
MaxParamsFrames == 2
\* Frames read from the connection of a client that sends many requests.
MaxFloodFrames == 101
\* Frames read from the connection of a client that fills the device channel,
\* and advertisements the adapter reports to its scan.
MaxChannelFrames == 2
MaxChannelCallbacks == 13
\* Frames read from the connection of a client that tries filters, and
\* advertisements the adapter reports to its scan.
MaxMatchFrames == 1
MaxMatchCallbacks == 2

\* ------------------------------------------------------ program constants
\* make(chan Msg, 100) in WsReadLoop.
MsgsCap == 100
\* make(chan Device, 10) in startAsyncScan.
DevicesCap == 10
\* make([]byte, 512) in wsRead.
ReadBuf == 512

\* Two clients, each with one websocket connection.
Sessions == {"a", "b"}

\* ------------------------------------------------------------ data model
NilUUID == "00000000"

\* DiscoverFilter (types.go): name, namePrefix, services.
FooFilter == [name |-> "Foo", namePrefix |-> "", services |-> <<>>]

\* The fields of every params struct of types.go, with Go's zero values.
ZeroParams ==
  [filters |-> <<>>, peripheralId |-> "", serviceId |-> NilUUID,
   characteristicId |-> NilUUID, message |-> "", encoding |-> "",
   withResponse |-> FALSE, startNotifications |-> FALSE]

\* json.RawMessage of Msg.Params: absent (nil), the JSON null, a JSON value that
\* is no object ("bad"), or an object with the given fields.
AbsentParams == [kind |-> "absent", v |-> ZeroParams]
NullParams == [kind |-> "null", v |-> ZeroParams]
BadParams == [kind |-> "bad", v |-> ZeroParams]
Obj(v) == [kind |-> "obj", v |-> v]

\* type Msg struct (jsonrpc.go); the zero value is what `var msg Msg` holds.
ZeroMsg == [id |-> 0, method |-> "", params |-> AbsentParams]

Methods ==
  {"getVersion", "discover", "connect", "startNotifications",
   "stopNotifications", "write", "read"}
DeviceMethods == {"startNotifications", "stopNotifications", "write", "read"}

\* What a client may put in one frame: method and params (the id is chosen
\* separately). An empty method is a frame without a method field.
Bodies ==
  { [method |-> "getVersion", params |-> AbsentParams],
    [method |-> "discover", params |-> Obj([ZeroParams EXCEPT !.filters = <<FooFilter>>])],
    [method |-> "discover", params |-> BadParams],
    [method |-> "connect", params |-> Obj([ZeroParams EXCEPT !.peripheralId = "P1"])],
    [method |-> "startNotifications",
     params |-> Obj([ZeroParams EXCEPT !.serviceId = "S1", !.characteristicId = "C1"])],
    [method |-> "stopNotifications",
     params |-> Obj([ZeroParams EXCEPT !.serviceId = "S1", !.characteristicId = "C1"])],
    [method |-> "write",
     params |-> Obj([ZeroParams EXCEPT !.serviceId = "S1", !.characteristicId = "C1",
                                       !.message = "Zg==", !.encoding = "base64"])],
    [method |-> "write",
     params |-> Obj([ZeroParams EXCEPT !.serviceId = "S1", !.characteristicId = "C1",
                                       !.message = "66", !.encoding = "hex"])],
    [method |-> "read",
     params |-> Obj([ZeroParams EXCEPT !.serviceId = "S1", !.characteristicId = "C1",
                                       !.startNotifications = TRUE])],
    [method |-> "foo", params |-> AbsentParams],
    [method |-> "foo", params |-> Obj(ZeroParams)],
    [method |-> "", params |-> Obj(ZeroParams)] }

\* The n-th frame a client sends carries id n; a client may also send a
\* getVersion request without an id field.
Frames(n) ==
  { [hasId |-> TRUE, id |-> n, method |-> b.method, params |-> b.params] : b \in Bodies }
  \cup { [hasId |-> FALSE, id |-> 0, method |-> "getVersion", params |-> AbsentParams] }

\* The requests of a client that connects and uses notifications.
NotifyBodies ==
  {b \in Bodies :
     b.method \in {"connect", "startNotifications", "stopNotifications", "read"}}

NotifyFrames(n) ==
  { [hasId |-> TRUE, id |-> n, method |-> b.method, params |-> b.params] : b \in NotifyBodies }

\* The requests of a client that connects, writes a characteristic and reads
\* it back.
EchoBodies ==
  { [method |-> "connect", params |-> Obj([ZeroParams EXCEPT !.peripheralId = "P1"])],
    [method |-> "write",
     params |-> Obj([ZeroParams EXCEPT !.serviceId = "S1", !.characteristicId = "C1",
                                       !.message = "Zg==", !.encoding = "base64"])],
    [method |-> "write",
     params |-> Obj([ZeroParams EXCEPT !.serviceId = "S1", !.characteristicId = "C1",
                                       !.message = "Zm8=", !.encoding = "base64"])],
    [method |-> "read",
     params |-> Obj([ZeroParams EXCEPT !.serviceId = "S1", !.characteristicId = "C1"])] }

EchoFrames(n) ==
  { [hasId |-> TRUE, id |-> n, method |-> b.method, params |-> b.params] : b \in EchoBodies }

\* Filters by service, and the requests of a client that discovers.
S1Filter == [name |-> "", namePrefix |-> "", services |-> <<"S1">>]
S1S2Filter == [name |-> "", namePrefix |-> "", services |-> <<"S1", "S2">>]

DiscoverBodies ==
  { [method |-> "discover", params |-> Obj([ZeroParams EXCEPT !.filters = fs])] :
      fs \in {<<FooFilter>>, <<S1Filter>>, <<S1S2Filter>>} }

DiscoverFrames(n) ==
  { [hasId |-> TRUE, id |-> n, method |-> b.method, params |-> b.params] : b \in DiscoverBodies }

\* Advertisements the radio reports to that client, each from its own address.
DiscoverAdverts ==
  { [addr |-> "A1", name |-> "Foo", services |-> {"S1"}, rssi |-> -40],
    [addr |-> "A2", name |-> "", services |-> {"S1", "S2"}, rssi |-> -50],
    [addr |-> "A3", name |-> "Bar", services |-> {"S1", "S2"}, rssi |-> -60],
    [addr |-> "A4", name |-> "Foobar", services |-> {"S2"}, rssi |-> -70] }

\* The methods that take params, and the requests of a client that sends them
\* without params, with null, with a value that is no object, or with the
\* empty object; it can also connect.
ParamMethods == DeviceMethods \cup {"discover", "connect"}

ParamsBodies ==
  { [method |-> m, params |-> j] :
      m \in ParamMethods, j \in {AbsentParams, NullParams, BadParams, Obj(ZeroParams)} }
  \cup { [method |-> "connect", params |-> Obj([ZeroParams EXCEPT !.peripheralId = "P1"])] }

ParamsFrames(n) ==
  { [hasId |-> TRUE, id |-> n, method |-> b.method, params |-> b.params] : b \in ParamsBodies }

\* The requests of a client that sends many requests: getVersion.
FloodFrames(n) ==
  { [hasId |-> TRUE, id |-> n, method |-> "getVersion", params |-> AbsentParams] }

\* The requests of a client that fills the device channel: it discovers the
\* devices named Foo and then asks for the version. Every advertisement comes
\* from another device: the third is named Bar, the fifth has no name and the
\* others are named Foo.
ChannelFrames(n) ==
  IF n = 1
    THEN { [hasId |-> TRUE, id |-> n, method |-> "discover",
            params |-> Obj([ZeroParams EXCEPT !.filters = <<FooFilter>>])] }
    ELSE { [hasId |-> TRUE, id |-> n, method |-> "getVersion", params |-> AbsentParams] }

ChannelAdverts(n) ==
  { [addr |-> "A" \o ToString(n),
     name |-> IF n = 3 THEN "Bar" ELSE IF n = 5 THEN "" ELSE "Foo",
     services |-> {}, rssi |-> -40 - n] }

\* The filter lists of a client that tries filters: none, by name, by
\* services, by both in one filter and in two, and with a name prefix.
MatchFilterLists ==
  { <<>>,
    <<FooFilter>>,
    <<S1S2Filter>>,
    <<[name |-> "Foo", namePrefix |-> "", services |-> <<"S1">>]>>,
    <<FooFilter, S1Filter>>,
    <<FooFilter, [name |-> "", namePrefix |-> "Ba", services |-> <<"S1">>]>>,
    <<[name |-> "", namePrefix |-> "Ba", services |-> <<>>]>>,
    <<[name |-> "Foo", namePrefix |-> "Ba", services |-> <<"S1">>]>> }

MatchFrames(n) ==
  { [hasId |-> TRUE, id |-> n, method |-> "discover",
     params |-> Obj([ZeroParams EXCEPT !.filters = fs])] : fs \in MatchFilterLists }

\* Advertisements the radio reports to that client.
MatchAdverts ==
  { [addr |-> "A1", name |-> "Foo", services |-> {"S1"}, rssi |-> -40],
    [addr |-> "A2", name |-> "Foo", services |-> {}, rssi |-> -50],
    [addr |-> "A3", name |-> "Bar", services |-> {"S1", "S2"}, rssi |-> -60],
    [addr |-> "A4", name |-> "Foobar", services |-> {"S1"}, rssi |-> -70],
    [addr |-> "A5", name |-> "", services |-> {"S1", "S2"}, rssi |-> -80] }

\* Advertisements the radio can report (bluetooth.ScanResult).
Adverts ==
  { [addr |-> "A1", name |-> "Foo", services |-> {"S1"}, rssi |-> -40],
    [addr |-> "A2", name |-> "", services |-> {}, rssi |-> -50],
    [addr |-> "A3", name |-> "Bar", services |-> {}, rssi |-> -60] }

VARIABLES
  pc,        \* per session: where the handler goroutine is
  rmsg,      \* per session: `msg` of the wsRead call in progress
  rx,        \* per session: frames read so far (history)
  msgs,      \* per session: the channel `out` of WsReadLoop
  delivered, \* per session: every Msg ever put on the channel (history)
  reqs,      \* per session: requests taken by the dispatcher, with DEVICE then
  DEVICE,    \* per session: the device handle (0 is nil)
  out,       \* per session: frames written to the websocket (history)
  bleLog,    \* per session: adapter and device calls of the dispatcher, by request
  crash,     \* per session: why the handler panicked ("" if it did not)
  scans,     \* the scan goroutines started by startAsyncScan, in start order
  MsgID,     \* jsonrpc.go: var MsgID int64
  nframes,   \* frames read by all sessions
  ncb,       \* scan callbacks made by the adapter
  ndev,      \* device handles handed out by adapter.Connect
  conns,     \* connections opened by adapter.Connect and never closed, with their session
  subs,      \* the notification callbacks registered with the BLE stack
  pend,      \* per session: pushes of other goroutines that are inside WsSend
  nchg       \* value changes reported by the devices

vars ==
  <<pc, rmsg, rx, msgs, delivered, reqs, DEVICE, out, bleLog, crash, scans,
    MsgID, nframes, ncb, ndev, conns, subs, pend, nchg>>

Init ==
  /\ pc = [s \in Sessions |-> "read"]
  /\ rmsg = [s \in Sessions |-> ZeroMsg]
  /\ rx = [s \in Sessions |-> <<>>]
  /\ msgs = [s \in Sessions |-> <<>>]
  /\ delivered = [s \in Sessions |-> <<>>]
  /\ reqs = [s \in Sessions |-> <<>>]
  /\ DEVICE = [s \in Sessions |-> 0]
  /\ out = [s \in Sessions |-> <<>>]
  /\ bleLog = [s \in Sessions |-> <<>>]
  /\ crash = [s \in Sessions |-> ""]
  /\ scans = <<>>
  /\ MsgID = 0
  /\ nframes = 0
  /\ ncb = 0
  /\ ndev = 0
  /\ conns = {}
  /\ subs = {}
  /\ pend = [s \in Sessions |-> {}]
  /\ nchg = 0

\* ------------------------------------------------------------- jsonrpc.go
\* json.Unmarshal(buff[:n], &msg): a field absent from the frame keeps the
\* value msg already holds.
Unmarshal(msg, f) ==
  [id |-> IF f.hasId THEN f.id ELSE msg.id,
   method |-> IF f.method # "" THEN f.method ELSE msg.method,
   params |-> IF f.params.kind # "absent" THEN f.params ELSE msg.params]

\* wsRead without the check for result messages.
IsResultMessageNever(msg) == FALSE

\* wsRead: `if len(msg.Method) == 0 { continue }`.
IsResultMessage(msg) == Len(msg.method) = 0

\* Respond with the Id field left at its zero value.
RespondNoId(m, data) ==
  [type |-> "Result", id |-> 0, jsonrpc |-> "2.0", result |-> data, encoding |-> ""]

\* RespondBytes that puts the bytes in the result as they are, as text.
RespondBytesRaw(m, buf) ==
  [type |-> "Result", id |-> m.id, jsonrpc |-> "2.0",
   result |-> [t |-> "string", n |-> 0, s |-> IF buf = <<>> THEN "" ELSE "f"],
   encoding |-> ""]

\* Msg.Respond, Msg.RespondBytes, Msg.Error.
Respond(m, data) ==
  [type |-> "Result", id |-> m.id, jsonrpc |-> "2.0", result |-> data, encoding |-> ""]

\* base64.StdEncoding on the byte strings the model uses.
B64Encode(buf) == IF buf = <<>> THEN "" ELSE IF buf = <<102>> THEN "Zg==" ELSE "Zm8="
B64Valid(str) == str \in {"", "Zg==", "Zm8="}
B64Decode(str) == IF str = "" THEN <<>> ELSE IF str = "Zg==" THEN <<102>> ELSE <<102, 111>>

RespondBytes(m, buf) ==
  [type |-> "Result", id |-> m.id, jsonrpc |-> "2.0",
   result |-> [t |-> "string", n |-> 0, s |-> B64Encode(buf)], encoding |-> "base64"]

Error(m, err) == [type |-> "Error", id |-> m.id, jsonrpc |-> "2.0", error |-> err]

\* NewMsg that reads MsgID + 1 without storing it: every push gets id 1.
NewMsgNoStore(id, method, params) ==
  [type |-> "Msg", id |-> 1, jsonrpc |-> "2.0", method |-> method, params |-> params]

\* NewMsg, given the value atomic.AddInt64(&MsgID, 1) returned.
NewMsg(id, method, params) ==
  [type |-> "Msg", id |-> id, jsonrpc |-> "2.0", method |-> method, params |-> params]

\* Msg.DebugParams panics when Params does not decode to a map.
DebugParamsPanics(m) == m.params.kind \in {"absent", "bad"}

\* Values of Result.Result.
Null == [t |-> "null", n |-> 0, s |-> ""]
IntResult(n) == [t |-> "int", n |-> n, s |-> ""]
Version == [t |-> "protocol", n |-> 0, s |-> "1.3"]

\* The websocket is closed once the handler has returned or panicked.
Alive(s) == pc[s] \notin {"returned", "crashed"}

\* Where a written frame comes from: the scan of a didDiscoverPeripheral push
\* (scan, 0 if none), or the characteristic of device handle dev on which the
\* callback of a characteristicDidChange push was registered and the value
\* change ev that invoked it (dev and ev are 0 if none).
NoSrc == [scan |-> 0, dev |-> 0, svc |-> "", chr |-> "", ev |-> 0]
ScanSrc(i) == [NoSrc EXCEPT !.scan = i]
SubSrc(x, ev) == [NoSrc EXCEPT !.dev = x.dev, !.svc = x.svc, !.chr = x.chr, !.ev = ev]

\* WsSend(c, data): c.Write on a closed connection fails and the error is dropped.
\* Each written frame is logged with the request being handled (req, 0 for a
\* push) and its source.
WsSend(o, s, data, req, src) ==
  IF Alive(s)
    THEN [o EXCEPT ![s] = Append(@, [frame |-> data, req |-> req, scan |-> src.scan,
                                      dev |-> src.dev, svc |-> src.svc, chr |-> src.chr,
                                      ev |-> src.ev])]
    ELSE o

\* --------------------------------------------------------------- types.go
ParamsFromJson(j) ==
  [err |-> IF j.kind \in {"absent", "bad"} THEN "json: cannot unmarshal" ELSE "",
   v |-> IF j.kind = "obj" THEN j.v ELSE ZeroParams]

DiscoverParamsFromJson(j) ==
  LET r == ParamsFromJson(j) IN [err |-> r.err, Filters |-> r.v.filters]

ConnectParamsFromJson(j) ==
  LET r == ParamsFromJson(j) IN [err |-> r.err, PeripheralId |-> r.v.peripheralId]

NotificationsParamsFromJson(j) ==
  LET r == ParamsFromJson(j)
  IN [err |-> r.err, ServiceId |-> r.v.serviceId,
      CharacteristicId |-> r.v.characteristicId]

UpdateParamsFromJson(j) ==
  LET r == ParamsFromJson(j)
  IN [err |-> r.err, ServiceId |-> r.v.serviceId,
      CharacteristicId |-> r.v.characteristicId, Message |-> r.v.message,
      Encoding |-> r.v.encoding, WithResponse |-> r.v.withResponse]

ReadParamsFromJson(j) ==
  LET r == ParamsFromJson(j)
  IN [err |-> r.err, ServiceId |-> r.v.serviceId,
      CharacteristicId |-> r.v.characteristicId,
      StartNotifications |-> r.v.startNotifications]

\* ------------------------------------------------- WsReadLoop and wsRead
\* One iteration of wsRead's loop: c.Read returns the next frame of the client,
\* which decodes. A frame without a method is skipped (msg keeps what it
\* decoded); otherwise wsRead returns and WsReadLoop does `out <- msg`, which
\* needs room in the channel.
WsReadFrameOf(s, frames, max) ==
  /\ pc[s] = "read"
  /\ nframes < max
  /\ \E f \in frames :
       LET m == Unmarshal(rmsg[s], f)
       IN /\ rx' = [rx EXCEPT ![s] = Append(@, f)]
          /\ IF IsResultMessage(m)
               THEN /\ rmsg' = [rmsg EXCEPT ![s] = m]
                    /\ UNCHANGED <<msgs, delivered>>
               ELSE /\ Len(msgs[s]) < MsgsCap
                    /\ msgs' = [msgs EXCEPT ![s] = Append(@, m)]
                    /\ delivered' = [delivered EXCEPT ![s] = Append(@, m)]
                    /\ rmsg' = [rmsg EXCEPT ![s] = ZeroMsg]
  /\ nframes' = nframes + 1
  /\ UNCHANGED <<pc, reqs, DEVICE, out, bleLog, crash, scans, MsgID, ncb, ndev, conns, subs,
                 pend, nchg>>

\* The next frame of any client.
WsReadFrame(s) == WsReadFrameOf(s, Frames(Len(rx[s]) + 1), MaxFrames)

\* The next frame of a client that uses notifications.
WsReadNotifyFrame(s) == WsReadFrameOf(s, NotifyFrames(Len(rx[s]) + 1), MaxNotifyFrames)

\* The next frame of a client that writes and reads back.
WsReadEchoFrame(s) == WsReadFrameOf(s, EchoFrames(Len(rx[s]) + 1), MaxEchoFrames)

\* The next frame of a client that discovers.
WsReadDiscoverFrame(s) ==
  WsReadFrameOf(s, DiscoverFrames(Len(rx[s]) + 1), MaxDiscoverFrames)

\* The next frame of a client that sends incomplete params.
WsReadParamsFrame(s) == WsReadFrameOf(s, ParamsFrames(Len(rx[s]) + 1), MaxParamsFrames)

\* The next frame of a client that sends many requests.
WsReadFloodFrame(s) == WsReadFrameOf(s, FloodFrames(Len(rx[s]) + 1), MaxFloodFrames)

\* The next frame of a client that fills the device channel.
WsReadChannelFrame(s) == WsReadFrameOf(s, ChannelFrames(Len(rx[s]) + 1), MaxChannelFrames)

\* The next frame of a client that tries filters.
WsReadMatchFrame(s) == WsReadFrameOf(s, MatchFrames(Len(rx[s]) + 1), MaxMatchFrames)

\* c.Read returns io.EOF: the loop breaks, the deferred close(out) runs and
\* WsReadLoop returns the channel to GetHandler, which starts to range over it.
WsReadEOF(s) ==
  /\ pc[s] = "read"
  /\ pc' = [pc EXCEPT ![s] = "range"]
  /\ rmsg' = [rmsg EXCEPT ![s] = ZeroMsg]
  /\ UNCHANGED <<rx, msgs, delivered, nframes, reqs, DEVICE, out, bleLog, crash,
                 scans, MsgID, ncb, ndev, conns, subs,
                 pend, nchg>>

\* c.Read fails with another error, or the frame is not JSON: the loop logs
\* and returns, the deferred close(out) runs.
WsReadError(s) ==
  /\ pc[s] = "read"
  /\ pc' = [pc EXCEPT ![s] = "range"]
  /\ rmsg' = [rmsg EXCEPT ![s] = ZeroMsg]
  /\ UNCHANGED <<rx, msgs, delivered, nframes, reqs, DEVICE, out, bleLog, crash,
                 scans, MsgID, ncb, ndev, conns, subs,
                 pend, nchg>>

\* A panic that ends the whole server, every session with it.
PanicAll(s, why) ==
  /\ pc' = [t \in Sessions |-> "crashed"]
  /\ crash' = [crash EXCEPT ![s] = why]

\* A panic in the handler goroutine (too big, nil dereference, DebugParams)
\* unwinds it: the goroutine of that connection ends, the others run on.
Panic(s, why) ==
  /\ pc' = [pc EXCEPT ![s] = "crashed"]
  /\ crash' = [crash EXCEPT ![s] = why]

\* Sizes of the frames a client may send that are too long to be a request
\* of the model, and the n that c.Read(buff) returns for them.
BigFrames == {ReadBuf, ReadBuf + 1}
ReadLen(size) == IF size > ReadBuf THEN ReadBuf ELSE size

\* wsRead: `if n >= 512 { panic("too big") }`.
TooBig(n) == n >= ReadBuf

\* c.Read fills the 512-byte buffer: panic("too big") unwinds the handler.
WsReadTooBig(s) ==
  /\ pc[s] = "read"
  /\ \E size \in BigFrames : TooBig(ReadLen(size))
  /\ Panic(s, "too big")
  /\ rmsg' = [rmsg EXCEPT ![s] = ZeroMsg]
  /\ UNCHANGED <<rx, msgs, delivered, nframes, reqs, DEVICE, out, bleLog, scans,
                 MsgID, ncb, ndev, conns, subs,
                 pend, nchg>>

\* ------------------------------------------------- matchDevice, scanning
\* matchDevice that does not look at the name of a filter.
RECURSIVE matchDeviceNoName(_, _)
matchDeviceNoName(device, filters) ==
  IF filters = <<>> THEN TRUE
  ELSE IF \E i \in DOMAIN Head(filters).services :
            Head(filters).services[i] \notin device.services
    THEN FALSE
    ELSE matchDeviceNoName(device, Tail(filters))

\* matchDevice that asks for the first service of a filter only.
RECURSIVE matchDeviceFirstService(_, _)
matchDeviceFirstService(device, filters) ==
  IF filters = <<>> THEN TRUE
  ELSE LET filter == Head(filters)
       IN IF Len(filter.name) # 0 /\ filter.name # device.name THEN FALSE
          ELSE IF filter.services # <<>> /\ filter.services[1] \notin device.services
            THEN FALSE
            ELSE matchDeviceFirstService(device, Tail(filters))

\* matchDevice that is content with one filter of the list.
matchDeviceAnyFilter(device, filters) ==
  \/ filters = <<>>
  \/ \E k \in DOMAIN filters :
       /\ Len(filters[k].name) = 0 \/ filters[k].name = device.name
       /\ \A j \in DOMAIN filters[k].services :
            filters[k].services[j] \in device.services

\* matchDevice: the loop over the filters returns false at the first filter
\* whose name or one of whose services the device does not have.
RECURSIVE matchDevice(_, _)
matchDevice(device, filters) ==
  IF filters = <<>> THEN TRUE
  ELSE LET filter == Head(filters)
       IN IF Len(filter.name) # 0 /\ filter.name # device.name THEN FALSE
          ELSE IF \E i \in DOMAIN filter.services : filter.services[i] \notin device.services
            THEN FALSE
            ELSE matchDevice(device, Tail(filters))

\* adapter.StopScan(): asks the scans that are inside adapter.Scan to return.
\* A goroutine that has not called adapter.Scan yet is not reached by it.
StopScan(sc) ==
  [i \in DOMAIN sc |->
     IF sc[i].gpc = "scanning" THEN [sc[i] EXCEPT !.stop = TRUE] ELSE sc[i]]

\* startAsyncScan: stop the previous scan, make the device channel and start
\* the goroutine that will call adapter.Scan. req is the discover request;
\* found lists the advertisements the callback has logged as "found device".
startAsyncScan(sc, s, req, filter) ==
  Append(StopScan(sc),
         [sess |-> s, req |-> req, filter |-> filter, gpc |-> "spawned",
          stop |-> FALSE, devices |-> <<>>, closed |-> FALSE, err |-> FALSE,
          found |-> <<>>])

\* The scan goroutine calls adapter.Scan, which starts scanning or fails; on
\* failure the goroutine logs and the deferred close(devices) runs.
ScanEnter(i) ==
  /\ scans[i].gpc = "spawned"
  /\ \E ok \in BOOLEAN :
       scans' = [scans EXCEPT ![i] =
                   IF ok THEN [@ EXCEPT !.gpc = "scanning"]
                   ELSE [@ EXCEPT !.gpc = "done", !.closed = TRUE, !.err = TRUE]]
  /\ UNCHANGED <<pc, rmsg, rx, msgs, delivered, reqs, DEVICE, out, bleLog, crash,
                 MsgID, nframes, ncb, ndev, conns, subs,
                 pend, nchg>>

\* A send on the device channel that puts the device before the waiting ones.
SendDeviceFirst(q, d) == <<d>> \o q

\* `devices <- Device{...}`: the device waits behind the ones in the channel.
SendDevice(q, d) == Append(q, d)

\* log.Debug("found device:", ...): the line is kept in the record of the scan
\* when the log of the scan is read (keep), and is lost otherwise.
LogFound(log, device, keep) == IF keep THEN Append(log, device) ELSE log

\* The adapter reports an advertisement to the callback of a running scan:
\* dropped when the local name is empty, else logged as found; then dropped
\* when the filters do not match, else sent on the device channel (the send
\* waits for room).
ScanCallbackLog(i, adverts, max, keep) ==
  /\ scans[i].gpc = "scanning"
  /\ ~scans[i].stop
  /\ ncb < max
  /\ \E device \in adverts :
       IF Len(device.name) = 0
         THEN UNCHANGED scans
         ELSE IF ~matchDevice(device, scans[i].filter)
         THEN scans' = [scans EXCEPT ![i].found = LogFound(@, device, keep)]
         ELSE /\ Len(scans[i].devices) < DevicesCap
              /\ scans' = [scans EXCEPT
                             ![i].found = LogFound(@, device, keep),
                             ![i].devices =
                               SendDevice(@, [PeripheralId |-> device.addr,
                                              Name |-> device.name, RSSI |-> device.rssi])]
  /\ ncb' = ncb + 1
  /\ UNCHANGED <<pc, rmsg, rx, msgs, delivered, reqs, DEVICE, out, bleLog, crash,
                 MsgID, nframes, ndev, conns, subs,
                 pend, nchg>>

\* The callback of a scan whose log is not read.
ScanCallbackOf(i, adverts, max) == ScanCallbackLog(i, adverts, max, FALSE)

ScanCallback(i) == ScanCallbackOf(i, Adverts, MaxCallbacks)

\* An advertisement reported to a scan of a client that discovers.
DiscoverScanCallback(i) == ScanCallbackOf(i, DiscoverAdverts, MaxDiscoverCallbacks)

\* An advertisement reported to the scan of a client that fills the device
\* channel; the log of the scan is read.
ChannelScanCallback(i) ==
  ScanCallbackLog(i, ChannelAdverts(ncb + 1), MaxChannelCallbacks, TRUE)

\* An advertisement reported to the scan of a client that tries filters; the
\* log of the scan is read.
MatchScanCallback(i) == ScanCallbackLog(i, MatchAdverts, MaxMatchCallbacks, TRUE)

\* adapter.Scan returns after StopScan; the deferred close(devices) runs.
ScanReturn(i) ==
  /\ scans[i].gpc = "scanning"
  /\ scans[i].stop
  /\ scans' = [scans EXCEPT ![i].gpc = "done", ![i].closed = TRUE]
  /\ UNCHANGED <<pc, rmsg, rx, msgs, delivered, reqs, DEVICE, out, bleLog, crash,
                 MsgID, nframes, ncb, ndev, conns, subs,
                 pend, nchg>>

\* The forwarder goroutine of GetHandler: `for device := range devices` takes
\* the next device, builds the didDiscoverPeripheral push with NewMsg and enters
\* WsSend; the loop takes the next device only after WsSend has returned.
Forward(i) ==
  /\ scans[i].devices # <<>>
  /\ \A p \in pend[scans[i].sess] : p.src.scan # i
  /\ scans' = [scans EXCEPT ![i].devices = Tail(@)]
  /\ MsgID' = MsgID + 1
  /\ pend' = [pend EXCEPT ![scans[i].sess] =
                @ \cup {[frame |-> NewMsg(MsgID + 1, "didDiscoverPeripheral",
                                          Head(scans[i].devices)),
                         src |-> ScanSrc(i)]}]
  /\ UNCHANGED <<pc, rmsg, rx, msgs, delivered, reqs, DEVICE, out, bleLog, crash,
                 nframes, ncb, ndev, conns, subs, nchg>>

\* c.Write of a push that another goroutine than the dispatcher sends
\* completes: WsSend returns.
PushWrite(s) ==
  /\ \E p \in pend[s] :
       /\ out' = WsSend(out, s, p.frame, 0, p.src)
       /\ pend' = [pend EXCEPT ![s] = @ \ {p}]
  /\ UNCHANGED <<pc, rmsg, rx, msgs, delivered, reqs, DEVICE, bleLog, crash, scans,
                 MsgID, nframes, ncb, ndev, conns, subs, nchg>>

\* ------------------------------------------------------------ GetHandler
\* A receive that takes the newest message of the channel.
RecvNewest(q) == [msg |-> q[Len(q)], rest |-> SubSeq(q, 1, Len(q) - 1)]

\* `for msg := range msgs`: a receive takes the oldest message of the channel.
Recv(q) == [msg |-> Head(q), rest |-> Tail(q)]

\* The message the dispatcher is about to take, and the number of its request.
Next1(s) == Recv(msgs[s]).msg
NextReq(s) == Len(reqs[s]) + 1
\* The request in the handler's hands after the receive, and its number.
Cur(s) == reqs[s][Len(reqs[s])].msg
CurReq(s) == Len(reqs[s])

\* The receive at the head of the loop; the request is logged with the value
\* DEVICE has, the callbacks that are registered and the number of value
\* changes that have happened when its handler starts.
Begin(s) ==
  /\ pc[s] = "range"
  /\ msgs[s] # <<>>
  /\ msgs' = [msgs EXCEPT ![s] = Recv(@).rest]
  /\ reqs' = [reqs EXCEPT ![s] = Append(@, [msg |-> Recv(msgs[s]).msg, dev |-> DEVICE[s],
                                              subs |-> subs, nchg |-> nchg])]
  /\ UNCHANGED <<rmsg, rx, delivered, nframes>>


\* Adapter or device calls made for request k, in order; failed marks a call
\* that returned an error, buf holds the bytes a write passed or a read got.
Calls(k, ops) ==
  [i \in 1..Len(ops) |-> [req |-> k, op |-> ops[i], failed |-> FALSE, buf |-> <<>>]]

\* The calls cs, the last of which passed or returned the bytes buf.
WithBuf(cs, buf) == IF cs # <<>> THEN [cs EXCEPT ![Len(cs)].buf = buf] ELSE cs

\* The errors that device calls return.
DeviceErrors == {"services", "characteristics", "notify", "read", "write"}

\* The calls cs, of which the last one returned the error err if err is the
\* error of a device call.
Failing(cs, err) ==
  IF err \in DeviceErrors /\ cs # <<>> THEN [cs EXCEPT ![Len(cs)].failed = TRUE] ELSE cs

\* getDeviceCharacteristic: DiscoverServices, then DiscoverCharacteristics; fail
\* names the call that fails ("" if none of these two).
getDeviceCharacteristic(fail) ==
  [calls |-> IF fail = "services" THEN <<"DiscoverServices">>
             ELSE <<"DiscoverServices", "DiscoverCharacteristics">>,
   err |-> IF fail \in {"services", "characteristics"} THEN fail ELSE ""]

\* Values a characteristic read can return.
Values == {<<>>, <<102>>}

\* chars[0] of getDeviceCharacteristic: the characteristic characteristicId of
\* service serviceId on the device behind the handle.
CharOf(device, serviceId, characteristicId) ==
  [dev |-> device, svc |-> serviceId, chr |-> characteristicId]

\* notificationCallback(c, ServiceId, CharacteristicId): the closure keeps the
\* connection and the two ids it was made with.
notificationCallback(c, ServiceId, CharacteristicId) ==
  [c |-> c, ServiceId |-> ServiceId, CharacteristicId |-> CharacteristicId]

\* The body of the closure, given the value atomic.AddInt64 returned: the
\* characteristicDidChange push for the payload buf.
CallbackMsg(cb, id, buf) ==
  NewMsg(id, "characteristicDidChange",
         [serviceId |-> cb.ServiceId, characteristicId |-> cb.CharacteristicId,
          message |-> B64Encode(buf), encoding |-> "base64"])

\* char.EnableNotifications(callback) of the BLE stack: the callback replaces
\* the one registered on that characteristic, if any.
EnableNotifications(sb, char, callback) ==
  {x \in sb : CharOf(x.dev, x.svc, x.chr) # char}
    \cup {[dev |-> char.dev, svc |-> char.svc, chr |-> char.chr, cb |-> callback]}

\* char.EnableNotifications(nil) of the BLE stack: the callback registered on
\* that characteristic, if any, is removed.
DisableNotifications(sb, char) == {x \in sb : CharOf(x.dev, x.svc, x.chr) # char}

\* The callbacks the BLE stack invokes when the value of char changes.
Registered(sb, char) == {x \in sb : CharOf(x.dev, x.svc, x.chr) = char}

\* The characteristics some callback is registered on.
Subscribed(sb) == {CharOf(x.dev, x.svc, x.chr) : x \in sb}

\* A numbering of a finite set, in which the BLE stack invokes callbacks.
RECURSIVE SeqOf(_)
SeqOf(S) == IF S = {} THEN <<>> ELSE LET x == CHOOSE y \in S : TRUE IN <<x>> \o SeqOf(S \ {x})

\* Values a notification can carry.
Payloads == {<<102>>}

\* The value of a characteristic changes: the BLE stack invokes, on its own
\* goroutine, every callback registered on it with the new value. Each builds
\* its push with NewMsg and enters WsSend.
ValueChangeOf(char, max) ==
  /\ nchg < max
  /\ Registered(subs, char) # {}
  /\ \E buf \in Payloads :
       LET cbs == SeqOf(Registered(subs, char))
           new(s) == {[frame |-> CallbackMsg(cbs[j].cb, MsgID + j, buf),
                       src |-> SubSrc(cbs[j], nchg + 1)] :
                        j \in {k \in DOMAIN cbs : cbs[k].cb.c = s}}
       IN /\ pend' = [s \in Sessions |-> pend[s] \cup new(s)]
          /\ MsgID' = MsgID + Len(cbs)
  /\ nchg' = nchg + 1
  /\ UNCHANGED <<pc, rmsg, rx, msgs, delivered, reqs, DEVICE, out, bleLog, crash, scans,
                 nframes, ncb, ndev, conns, subs>>

ValueChange(char) == ValueChangeOf(char, MaxChanges)

\* A value change of the device of a client that uses notifications.
NotifyValueChange(char) == ValueChangeOf(char, MaxNotifyChanges)

\* The channel is closed and drained: the loop ends and the handler returns.
SessionEnd(s) ==
  /\ pc[s] = "range"
  /\ msgs[s] = <<>>
  /\ pc' = [pc EXCEPT ![s] = "returned"]
  /\ UNCHANGED <<rmsg, rx, msgs, delivered, nframes, reqs, DEVICE, out, bleLog,
                 crash, scans, MsgID, ncb, ndev, conns, subs,
                 pend, nchg>>

\* A getVersion handler that also stops the running scan.
GetVersionStopsScan(s) ==
  /\ Begin(s)
  /\ Next1(s).method = "getVersion"
  /\ out' = WsSend(out, s, Respond(Next1(s), Version), NextReq(s), NoSrc)
  /\ scans' = StopScan(scans)
  /\ UNCHANGED <<pc, DEVICE, bleLog, crash, MsgID, ncb, ndev, conns, subs,
                 pend, nchg>>

\* case "getVersion"
GetVersion(s) ==
  /\ Begin(s)
  /\ Next1(s).method = "getVersion"
  /\ out' = WsSend(out, s, Respond(Next1(s), Version), NextReq(s), NoSrc)
  /\ UNCHANGED <<pc, DEVICE, bleLog, crash, scans, MsgID, ncb, ndev, conns, subs,
                 pend, nchg>>

\* case "discover", up to the two `go` statements.
DiscoverStart(s) ==
  /\ Begin(s)
  /\ Next1(s).method = "discover"
  /\ LET params == DiscoverParamsFromJson(Next1(s).params)
     IN IF params.err # ""
          THEN /\ out' = WsSend(out, s, Error(Next1(s), params.err), NextReq(s), NoSrc)
               /\ UNCHANGED <<pc, scans, bleLog>>
          ELSE /\ scans' = startAsyncScan(scans, s, NextReq(s), params.Filters)
               /\ bleLog' = [bleLog EXCEPT ![s] = @ \o Calls(NextReq(s), <<"StopScan">>)]
               /\ pc' = [pc EXCEPT ![s] = "discover_ack"]
               /\ UNCHANGED out
  /\ UNCHANGED <<DEVICE, crash, MsgID, ncb, ndev, conns, subs,
                 pend, nchg>>

\* case "discover": the final WsSend(c, msg.Respond(nil)).
DiscoverAck(s) ==
  /\ pc[s] = "discover_ack"
  /\ out' = WsSend(out, s, Respond(Cur(s), Null), CurReq(s), NoSrc)
  /\ pc' = [pc EXCEPT ![s] = "range"]
  /\ UNCHANGED <<rmsg, rx, msgs, delivered, nframes, reqs, DEVICE, bleLog, crash,
                 scans, MsgID, ncb, ndev, conns, subs,
                 pend, nchg>>

\* case "connect", up to adapter.StopScan().
ConnectStart(s) ==
  /\ Begin(s)
  /\ Next1(s).method = "connect"
  /\ LET params == ConnectParamsFromJson(Next1(s).params)
     IN IF params.err # ""
          THEN /\ out' = WsSend(out, s, Error(Next1(s), params.err), NextReq(s), NoSrc)
               /\ UNCHANGED <<pc, scans, bleLog>>
          ELSE /\ scans' = StopScan(scans)
               /\ bleLog' = [bleLog EXCEPT ![s] = @ \o Calls(NextReq(s), <<"StopScan">>)]
               /\ pc' = [pc EXCEPT ![s] = "connect_call"]
               /\ UNCHANGED out
  /\ UNCHANGED <<DEVICE, crash, MsgID, ncb, ndev, conns, subs,
                 pend, nchg>>

\* case "connect": `DEVICE, err = adapter.Connect(...)` and the reply. The
\* adapter returns a new handle, or nil and an error.
ConnectCall(s) ==
  /\ pc[s] = "connect_call"
  /\ \E ok \in BOOLEAN :
       IF ok
         THEN /\ ndev' = ndev + 1
              /\ DEVICE' = [DEVICE EXCEPT ![s] = ndev + 1]
              /\ conns' = conns \cup {[dev |-> ndev + 1, sess |-> s]}
              /\ out' = WsSend(out, s, Respond(Cur(s), Null), CurReq(s), NoSrc)
              /\ bleLog' = [bleLog EXCEPT ![s] = @ \o Calls(CurReq(s), <<"Connect">>)]
         ELSE /\ ndev' = ndev
              /\ DEVICE' = [DEVICE EXCEPT ![s] = 0]
              /\ conns' = conns
              /\ out' = WsSend(out, s, Error(Cur(s), "connect"), CurReq(s), NoSrc)
              /\ bleLog' = [bleLog EXCEPT ![s] =
                              @ \o [Calls(CurReq(s), <<"Connect">>) EXCEPT ![1].failed = TRUE]]
  /\ pc' = [pc EXCEPT ![s] = "range"]
  /\ UNCHANGED <<rmsg, rx, msgs, delivered, nframes, reqs, crash, scans, MsgID, ncb,
                 subs, pend, nchg>>

\* Device calls after whose error reply the handler does not `continue`: it
\* goes on to the success reply.
DeviceCallNoContinue(s, calls, buf, err, result) ==
  /\ bleLog' = [bleLog EXCEPT ![s] =
                  @ \o Failing(WithBuf(Calls(NextReq(s), calls), buf), err)]
  /\ out' = IF err # ""
              THEN WsSend(WsSend(out, s, Error(Next1(s), err), NextReq(s), NoSrc),
                          s, Respond(Next1(s), Null), NextReq(s), NoSrc)
              ELSE WsSend(out, s, result, NextReq(s), NoSrc)
  /\ UNCHANGED <<pc, crash>>

\* The device calls of a handler and its reply: calls are logged, the last
\* one with the bytes buf, then the error reply if err is set or else the
\* result.
DeviceCall(s, calls, buf, err, result) ==
  /\ bleLog' = [bleLog EXCEPT ![s] =
                  @ \o Failing(WithBuf(Calls(NextReq(s), calls), buf), err)]
  /\ out' = WsSend(out, s, IF err # "" THEN Error(Next1(s), err) ELSE result,
                   NextReq(s), NoSrc)
  /\ UNCHANGED <<pc, crash>>

\* Device calls that carry no bytes.
DeviceReply(s, calls, err, result) == DeviceCall(s, calls, <<>>, err, result)

\* case "startNotifications"
StartNotifications(s) ==
  /\ Begin(s)
  /\ Next1(s).method = "startNotifications"
  /\ LET params == NotificationsParamsFromJson(Next1(s).params)
     IN IF params.err # ""
          THEN /\ out' = WsSend(out, s, Error(Next1(s), params.err), NextReq(s), NoSrc)
               /\ UNCHANGED <<pc, bleLog, crash, subs>>
          ELSE IF DEVICE[s] = 0
            THEN /\ Panic(s, "nil dereference")
                 /\ UNCHANGED <<out, bleLog, subs>>
            ELSE \E fail \in {"", "services", "characteristics", "notify"} :
                   LET char == getDeviceCharacteristic(fail)
                   IN IF char.err # ""
                        THEN /\ DeviceReply(s, char.calls, char.err, Null)
                             /\ UNCHANGED subs
                        ELSE /\ DeviceReply(s, char.calls \o <<"EnableNotifications">>,
                                            fail, Respond(Next1(s), Null))
                             /\ subs' =
                                  IF fail = "notify" THEN subs
                                  ELSE EnableNotifications(subs,
                                         CharOf(DEVICE[s], params.ServiceId,
                                                params.CharacteristicId),
                                         notificationCallback(s, params.CharacteristicId,
                                                              params.CharacteristicId))
  /\ UNCHANGED <<DEVICE, scans, MsgID, ncb, ndev, conns, pend, nchg>>

\* case "write"
Write(s) ==
  /\ Begin(s)
  /\ Next1(s).method = "write"
  /\ LET params == UpdateParamsFromJson(Next1(s).params)
     IN IF params.err # ""
          THEN /\ out' = WsSend(out, s, Error(Next1(s), params.err), NextReq(s), NoSrc)
               /\ UNCHANGED <<pc, bleLog, crash>>
          ELSE IF params.Encoding # "base64"
            THEN UNCHANGED <<pc, out, bleLog, crash>>
            ELSE IF DEVICE[s] = 0
              THEN /\ Panic(s, "nil dereference")
                   /\ UNCHANGED <<out, bleLog>>
              ELSE \E fail \in {"", "services", "characteristics", "write"} :
                     LET char == getDeviceCharacteristic(fail)
                     IN IF char.err # ""
                          THEN DeviceReply(s, char.calls, char.err, Null)
                          ELSE IF ~B64Valid(params.Message)
                            THEN DeviceReply(s, char.calls, "illegal base64 data", Null)
                            ELSE DeviceCall(s, char.calls \o <<"WriteWithoutResponse">>,
                                   B64Decode(params.Message), fail,
                                   Respond(Next1(s), IntResult(Len(B64Decode(params.Message)))))
  /\ UNCHANGED <<DEVICE, scans, MsgID, ncb, ndev, conns, subs,
                 pend, nchg>>

\* A read handler that reads before it enables the notifications.
ReadCallsReadFirst(enable) == <<"Read">> \o enable

\* case "read": the enabling call, if asked for, then char.Read.
ReadCalls(enable) == enable \o <<"Read">>

\* case "read"
Read(s) ==
  /\ Begin(s)
  /\ Next1(s).method = "read"
  /\ LET params == ReadParamsFromJson(Next1(s).params)
     IN IF params.err # ""
          THEN /\ out' = WsSend(out, s, Error(Next1(s), params.err), NextReq(s), NoSrc)
               /\ UNCHANGED <<pc, bleLog, crash, subs>>
          ELSE IF DEVICE[s] = 0
            THEN /\ Panic(s, "nil dereference")
                 /\ UNCHANGED <<out, bleLog, subs>>
            ELSE \E fail \in {"", "services", "characteristics", "notify", "read"}, buf \in Values :
                   LET char == getDeviceCharacteristic(fail)
                       enable == IF params.StartNotifications
                                   THEN <<"EnableNotifications">> ELSE <<>>
                   IN /\ fail = "notify" => params.StartNotifications
                      /\ fail # "" => buf = <<>>
                      /\ IF char.err # ""
                           THEN DeviceReply(s, char.calls, char.err, Null)
                           ELSE IF fail = "notify"
                             THEN DeviceReply(s, char.calls \o enable, fail, Null)
                             ELSE DeviceCall(s, char.calls \o ReadCalls(enable), buf, fail,
                                             RespondBytes(Next1(s), buf))
                      /\ subs' =
                           IF params.StartNotifications /\ fail \in {"", "read"}
                             THEN EnableNotifications(subs,
                                    CharOf(DEVICE[s], params.ServiceId,
                                           params.CharacteristicId),
                                    notificationCallback(s, params.CharacteristicId,
                                                         params.CharacteristicId))
                             ELSE subs
  /\ UNCHANGED <<DEVICE, scans, MsgID, ncb, ndev, conns, pend, nchg>>

\* A stopNotifications handler that drops the error of the disabling call.
DisableErrIgnored(sb, char, fail) == ""

\* A stopNotifications handler that refuses a characteristic on which no
\* callback is registered.
DisableErrIfAbsent(sb, char, fail) ==
  IF Registered(sb, char) = {} THEN "not subscribed" ELSE fail

\* case "stopNotifications": `err = char.EnableNotifications(nil)`, the only
\* error of the handler after the characteristic was found.
DisableErr(sb, char, fail) == fail

\* A stopNotifications handler that leaves the callback registered.
DisableCallSkipped(sb, char) == sb

\* case "stopNotifications": the call char.EnableNotifications(nil).
DisableCall(sb, char) == DisableNotifications(sb, char)

\* case "stopNotifications"
StopNotifications(s) ==
  /\ Begin(s)
  /\ Next1(s).method = "stopNotifications"
  /\ LET params == NotificationsParamsFromJson(Next1(s).params)
     IN IF params.err # ""
          THEN /\ out' = WsSend(out, s, Error(Next1(s), params.err), NextReq(s), NoSrc)
               /\ UNCHANGED <<pc, bleLog, crash, subs>>
          ELSE IF DEVICE[s] = 0
            THEN /\ Panic(s, "nil dereference")
                 /\ UNCHANGED <<out, bleLog, subs>>
            ELSE \E fail \in {"", "services", "characteristics", "notify"} :
                   LET char == getDeviceCharacteristic(fail)
                       c == CharOf(DEVICE[s], params.ServiceId, params.CharacteristicId)
                   IN IF char.err # ""
                        THEN /\ DeviceReply(s, char.calls, char.err, Null)
                             /\ UNCHANGED subs
                        ELSE /\ DeviceReply(s, char.calls \o <<"EnableNotifications">>,
                                            DisableErr(subs, c, fail), Respond(Next1(s), Null))
                             /\ subs' = IF fail = "notify" THEN subs ELSE DisableCall(subs, c)
  /\ UNCHANGED <<DEVICE, scans, MsgID, ncb, ndev, conns, pend, nchg>>

\* default: log.Errorf evaluates msg.DebugParams(), which may panic.
Unknown(s) ==
  /\ Begin(s)
  /\ Next1(s).method \notin Methods
  /\ IF DebugParamsPanics(Next1(s))
       THEN Panic(s, "DebugParams")
       ELSE UNCHANGED <<pc, crash>>
  /\ UNCHANGED <<DEVICE, out, bleLog, scans, MsgID, ncb, ndev, conns, subs,
                 pend, nchg>>

\* The steps of the handler goroutine once WsReadLoop has returned.
Dispatch(s) ==
  \/ GetVersion(s) \/ DiscoverStart(s) \/ DiscoverAck(s) \/ ConnectStart(s)
  \/ ConnectCall(s) \/ StartNotifications(s) \/ Write(s) \/ Read(s)
  \/ StopNotifications(s) \/ Unknown(s) \/ SessionEnd(s)

Next ==
  \/ \E s \in Sessions : WsReadFrame(s)
  \/ \E s \in Sessions : WsReadEOF(s)
  \/ \E s \in Sessions : WsReadError(s)
  \/ \E s \in Sessions : WsReadTooBig(s)
  \/ \E s \in Sessions : GetVersion(s)
  \/ \E s \in Sessions : DiscoverStart(s)
  \/ \E s \in Sessions : DiscoverAck(s)
  \/ \E s \in Sessions : ConnectStart(s)
  \/ \E s \in Sessions : ConnectCall(s)
  \/ \E s \in Sessions : StartNotifications(s)
  \/ \E s \in Sessions : Write(s)
  \/ \E s \in Sessions : Read(s)
  \/ \E s \in Sessions : StopNotifications(s)
  \/ \E s \in Sessions : Unknown(s)
  \/ \E s \in Sessions : SessionEnd(s)
  \/ \E i \in DOMAIN scans : ScanEnter(i)
  \/ \E i \in DOMAIN scans : ScanCallback(i)
  \/ \E i \in DOMAIN scans : ScanReturn(i)
  \/ \E i \in DOMAIN scans : Forward(i)
  \/ \E s \in Sessions : PushWrite(s)
  \/ \E char \in Subscribed(subs) : ValueChange(char)

Spec == Init /\ [][Next]_vars

\* One client that connects and uses notifications, alone on the server, with
\* a connection whose reads do not fail before the end of the stream.
Client == "a"

NotifyNext ==
  \/ WsReadNotifyFrame(Client)
  \/ WsReadEOF(Client)
  \/ ConnectStart(Client)
  \/ ConnectCall(Client)
  \/ StartNotifications(Client)
  \/ Read(Client)
  \/ StopNotifications(Client)
  \/ SessionEnd(Client)
  \/ PushWrite(Client)
  \/ \E char \in Subscribed(subs) : NotifyValueChange(char)

NotifySpec == Init /\ [][NotifyNext]_vars

\* One client that connects, writes and reads back, alone on the server.
EchoNext ==
  \/ WsReadEchoFrame(Client)
  \/ WsReadEOF(Client)
  \/ ConnectStart(Client)
  \/ ConnectCall(Client)
  \/ Write(Client)
  \/ Read(Client)
  \/ SessionEnd(Client)

EchoSpec == Init /\ [][EchoNext]_vars

\* One client that discovers, alone on the server.
DiscoverNext ==
  \/ WsReadDiscoverFrame(Client)
  \/ WsReadEOF(Client)
  \/ DiscoverStart(Client)
  \/ DiscoverAck(Client)
  \/ SessionEnd(Client)
  \/ \E i \in DOMAIN scans : ScanEnter(i)
  \/ \E i \in DOMAIN scans : DiscoverScanCallback(i)
  \/ \E i \in DOMAIN scans : ScanReturn(i)
  \/ \E i \in DOMAIN scans : Forward(i)
  \/ PushWrite(Client)

DiscoverSpec == Init /\ [][DiscoverNext]_vars

\* One client that sends incomplete params, alone on the server; the scan
\* goroutines it starts are not scheduled.
ParamsNext ==
  \/ WsReadParamsFrame(Client)
  \/ WsReadEOF(Client)
  \/ DiscoverStart(Client)
  \/ DiscoverAck(Client)
  \/ ConnectStart(Client)
  \/ ConnectCall(Client)
  \/ StartNotifications(Client)
  \/ Write(Client)
  \/ Read(Client)
  \/ StopNotifications(Client)
  \/ SessionEnd(Client)

ParamsSpec == Init /\ [][ParamsNext]_vars

\* One client that fills the device channel, alone on the server; nothing
\* stops its scan.
ChannelNext ==
  \/ WsReadChannelFrame(Client)
  \/ WsReadEOF(Client)
  \/ GetVersion(Client)
  \/ DiscoverStart(Client)
  \/ DiscoverAck(Client)
  \/ SessionEnd(Client)
  \/ \E i \in DOMAIN scans : ScanEnter(i)
  \/ \E i \in DOMAIN scans : ChannelScanCallback(i)
  \/ \E i \in DOMAIN scans : Forward(i)
  \/ PushWrite(Client)

ChannelSpec == Init /\ [][ChannelNext]_vars

\* One client that tries filters, alone on the server; nothing stops its scan.
MatchNext ==
  \/ WsReadMatchFrame(Client)
  \/ WsReadEOF(Client)
  \/ DiscoverStart(Client)
  \/ DiscoverAck(Client)
  \/ SessionEnd(Client)
  \/ \E i \in DOMAIN scans : ScanEnter(i)
  \/ \E i \in DOMAIN scans : MatchScanCallback(i)
  \/ \E i \in DOMAIN scans : Forward(i)
  \/ PushWrite(Client)

MatchSpec == Init /\ [][MatchNext]_vars

\* One client that sends many getVersion requests, alone on the server.
FloodNext ==
  \/ WsReadFloodFrame(Client)
  \/ WsReadEOF(Client)
  \/ GetVersion(Client)
  \/ SessionEnd(Client)

FloodSpec == Init /\ [][FloodNext]_vars

\* ================================================================ claims
IsReply(e) == e.frame.type \in {"Result", "Error"}
IsPush(e) == e.frame.type = "Msg"
IsDiscoveryPush(e) == IsPush(e) /\ e.frame.method = "didDiscoverPeripheral"
IsChangePush(e) == IsPush(e) /\ e.frame.method = "characteristicDidChange"

\* Request k of session s has left its handler.
Finished(s, k) == k < Len(reqs[s]) \/ (k = Len(reqs[s]) /\ pc[s] \in {"range", "returned"})

\* The frames written while request k of session s was handled.
RepliesTo(s, k) == {i \in DOMAIN out[s] : out[s][i].req = k}

\* The frame of rx[s] that became request k: the k-th frame with a method.
FrameOf(s, k) ==
  CHOOSE i \in DOMAIN rx[s] :
    /\ rx[s][i].method # ""
    /\ Cardinality({j \in 1..i : rx[s][j].method # ""}) = k

\* C1: every result or error frame the dispatcher writes carries the id of
\* the request that was being handled when it was written, which is the id
\* of that request's frame when the frame has an id field.
C1_ReplyCarriesRequestId ==
  \A s \in Sessions : \A i \in DOMAIN out[s] :
    IsReply(out[s][i]) =>
      /\ out[s][i].req \in DOMAIN reqs[s]
      /\ out[s][i].frame.id = reqs[s][out[s][i].req].msg.id
      /\ rx[s][FrameOf(s, out[s][i].req)].hasId
           => out[s][i].frame.id = rx[s][FrameOf(s, out[s][i].req)].id

\* A session has answered two requests that carry different ids.
C1_Witness ==
  \E s \in Sessions : \E i, j \in DOMAIN out[s] :
    /\ IsReply(out[s][i]) /\ IsReply(out[s][j])
    /\ out[s][i].req = 1 /\ out[s][j].req = 2
    /\ out[s][i].frame.id # out[s][j].frame.id

\* C2: a startNotifications, stopNotifications, write or read request that
\* is handled without a device handle gets an error reply, and the handler
\* does not dereference the nil handle. (Stated for requests whose params
\* decode and, for write, whose encoding is base64.)
C2_NoDeviceIsAnError ==
  \A s \in Sessions : \A k \in DOMAIN reqs[s] :
    LET r == reqs[s][k]
    IN (/\ r.msg.method \in DeviceMethods
        /\ r.dev = 0
        /\ ParamsFromJson(r.msg.params).err = ""
        /\ r.msg.method = "write" => UpdateParamsFromJson(r.msg.params).Encoding = "base64")
       => /\ ~(k = Len(reqs[s]) /\ crash[s] = "nil dereference")
          /\ Finished(s, k) => \E i \in RepliesTo(s, k) : out[s][i].frame.type = "Error"

\* C3: a write request whose encoding is not "base64" gets an error reply
\* with its id, and no device call is made for it.
C3_BadEncodingIsAnError ==
  \A s \in Sessions : \A k \in DOMAIN reqs[s] :
    LET r == reqs[s][k]
        params == UpdateParamsFromJson(r.msg.params)
    IN (r.msg.method = "write" /\ params.err = "" /\ params.Encoding # "base64"
        /\ Finished(s, k))
       => /\ \E i \in RepliesTo(s, k) :
               out[s][i].frame.type = "Error" /\ out[s][i].frame.id = r.msg.id
          /\ \A i \in DOMAIN bleLog[s] : bleLog[s][i].req # k

\* C4: a request with an unknown method writes no frame and does not end the
\* session, whatever its params are.
C4_UnknownMethodIgnored ==
  \A s \in Sessions : \A k \in DOMAIN reqs[s] :
    reqs[s][k].msg.method \notin Methods
      => /\ RepliesTo(s, k) = {}
         /\ ~(k = Len(reqs[s]) /\ pc[s] = "crashed")

\* C5: no message with an empty method is put on the channel or reaches the
\* dispatcher, and every frame that has a method is delivered, also after
\* frames without one were dropped.
C5_NoEmptyMethodDelivered ==
  \A s \in Sessions :
    /\ \A i \in DOMAIN delivered[s] : delivered[s][i].method # ""
    /\ \A k \in DOMAIN reqs[s] : reqs[s][k].msg.method # ""
    /\ Len(delivered[s]) = Cardinality({i \in DOMAIN rx[s] : rx[s][i].method # ""})

\* A frame without a method was read and dropped, and the frame after it was
\* delivered.
C5_Witness ==
  \E s \in Sessions :
    /\ Len(rx[s]) = 2
    /\ rx[s][1].method = ""
    /\ Len(delivered[s]) = 1

\* C6: a request that has been read can be handled while the connection is
\* still open: whenever the read loop is still reading and a request is
\* waiting on the channel, the dispatcher has a step to take.
C6_LazyDelivery ==
  \A s \in Sessions : (pc[s] = "read" /\ msgs[s] # <<>>) => ENABLED Dispatch(s)

\* C7: the dispatcher takes the requests in the order they were put on the
\* channel, and the replies are written in the order of their requests.
C7_InOrder ==
  \A s \in Sessions :
    /\ Len(reqs[s]) <= Len(delivered[s])
    /\ \A k \in DOMAIN reqs[s] : reqs[s][k].msg = delivered[s][k]
    /\ \A i, j \in DOMAIN out[s] :
         (i < j /\ IsReply(out[s][i]) /\ IsReply(out[s][j])) => out[s][i].req <= out[s][j].req

\* A session has handled two different requests to the end and returned.
C7_Witness ==
  \E s \in Sessions :
    /\ pc[s] = "returned"
    /\ Len(reqs[s]) = 2
    /\ reqs[s][1].msg.method # reqs[s][2].msg.method
    /\ RepliesTo(s, 1) # {} /\ RepliesTo(s, 2) # {}

\* C8: after the success reply of a connect request has been written on a
\* session, no didDiscoverPeripheral push of a scan that an earlier discover
\* of that session started is written on it.
C8_NoPushAfterConnectAck ==
  \A s \in Sessions : \A i, j \in DOMAIN out[s] :
    (/\ i < j
     /\ out[s][i].frame.type = "Result"
     /\ reqs[s][out[s][i].req].msg.method = "connect"
     /\ IsDiscoveryPush(out[s][j]))
    => scans[out[s][j].scan].req > out[s][i].req

\* C9: every didDiscoverPeripheral push is written after the acknowledgment
\* of the discover request that started its scan.
C9_AckBeforePush ==
  \A s \in Sessions : \A j \in DOMAIN out[s] :
    IsDiscoveryPush(out[s][j]) =>
      \E i \in DOMAIN out[s] :
        /\ i < j
        /\ out[s][i].frame.type = "Result"
        /\ out[s][i].req = scans[out[s][j].scan].req

\* C10: at most one goroutine is inside adapter.Scan at any time, over all
\* sessions.
C10_OneScanAtATime ==
  Cardinality({i \in DOMAIN scans : scans[i].gpc = "scanning"}) <= 1

\* ------------------------------------------------------------ C11 .. C20
\* The calls the dispatcher of session s makes in a step.
NewCalls(s) == {bleLog'[s][i].op : i \in (Len(bleLog[s]) + 1)..Len(bleLog'[s])}

\* The scan goroutines of session s that are inside adapter.Scan.
Scanning(s) == {i \in DOMAIN scans : scans[i].sess = s /\ scans[i].gpc = "scanning"}

\* C11: no two BLE operations on behalf of one session are in progress at
\* the same time: the dispatcher of a session makes an adapter or device call
\* (connect, service or characteristic discovery, read, write, enable
\* notifications) only while no scan goroutine of that session is inside
\* adapter.Scan. The stop-scan call, whose purpose is to end a running scan,
\* is left out.
C11_NoOverlappingBLE ==
  [][\A s \in Sessions : NewCalls(s) \ {"StopScan"} # {} => Scanning(s) = {}]_vars

\* The dispatcher of session s writes a frame in a step.
DispatcherWrites(s) ==
  /\ Len(out'[s]) > Len(out[s])
  /\ out'[s][Len(out'[s])].req # 0

\* C12: the writers of one connection are never inside the transport write
\* at the same time: the dispatcher writes a frame only while no forwarder or
\* notification callback is inside WsSend on that connection, and at most one
\* of those is inside WsSend at a time.
C12_SerializedWrites ==
  [][\A s \in Sessions :
       /\ DispatcherWrites(s) => pend[s] = {}
       /\ Cardinality(pend'[s]) <= 1]_vars

\* The pushes built by NewMsg so far: written, or still inside WsSend.
Built ==
  UNION {{[s |-> s, at |-> i, frame |-> out[s][i].frame] :
            i \in {j \in DOMAIN out[s] : IsPush(out[s][j])}}
         \cup {[s |-> s, at |-> 0, frame |-> p.frame] : p \in pend[s]} : s \in Sessions}

C14_NoLeakedConnection ==
  \A x \in conns :
    (Alive(x.sess) /\ DEVICE[x.sess] # 0) => DEVICE[x.sess] = x.dev

\* C15: when adapter.Connect fails for a connect request, the request gets an
\* error reply and the session's handle is the one it had before the request.
C15_FailedConnectKeepsHandle ==
  \A s \in Sessions :
    LET k == Len(reqs[s])
    IN (/\ k > 0
        /\ Finished(s, k)
        /\ reqs[s][k].msg.method = "connect"
        /\ \E i \in DOMAIN bleLog[s] :
             bleLog[s][i].req = k /\ bleLog[s][i].op = "Connect" /\ bleLog[s][i].failed)
       => /\ \E i \in RepliesTo(s, k) : out[s][i].frame.type = "Error"
          /\ DEVICE[s] = reqs[s][k].dev

\* The characteristic that request k of session s names, on the handle the
\* session held when the request was taken.
ReqChar(s, k) ==
  LET p == NotificationsParamsFromJson(reqs[s][k].msg.params)
  IN CharOf(reqs[s][k].dev, p.ServiceId, p.CharacteristicId)

\* Request r enables notifications: startNotifications, or read with
\* startNotifications true.
IsEnable(r) ==
  \/ r.msg.method = "startNotifications"
  \/ r.msg.method = "read" /\ ReadParamsFromJson(r.msg.params).StartNotifications

\* Frame i of session s is the success reply of a request that enables, or
\* that disables, notifications.
Enables(s, i) == out[s][i].frame.type = "Result" /\ IsEnable(reqs[s][out[s][i].req])
Disables(s, i) ==
  /\ out[s][i].frame.type = "Result"
  /\ reqs[s][out[s][i].req].msg.method = "stopNotifications"

\* Frame j of session s is a characteristicDidChange push of the callback
\* registered on char.
PushOf(s, j, char) ==
  /\ IsChangePush(out[s][j])
  /\ CharOf(out[s][j].dev, out[s][j].svc, out[s][j].chr) = char

\* The pushes, written or inside WsSend, that value change e produced.
PushesOf(e) ==
  UNION {{[s |-> s, at |-> j] : j \in {i \in DOMAIN out[s] : out[s][i].ev = e}}
         \cup {[s |-> s, at |-> 0] : p \in {q \in pend[s] : q.src.ev = e}} : s \in Sessions}

\* C16: after the success reply of a read with startNotifications true on
\* (S, C), which carries the value read in base64, every push of the callback
\* registered on that characteristic is a push for (S, C), and each value
\* change writes one such push only.
C16_ReadSubscribes ==
  \A s \in Sessions : \A i, j \in DOMAIN out[s] :
    (/\ i < j
     /\ Enables(s, i)
     /\ reqs[s][out[s][i].req].msg.method = "read"
     /\ PushOf(s, j, ReqChar(s, out[s][i].req)))
    => /\ out[s][i].frame.encoding = "base64"
       /\ out[s][j].frame.params.serviceId = ReqChar(s, out[s][i].req).svc
       /\ out[s][j].frame.params.characteristicId = ReqChar(s, out[s][i].req).chr
       /\ Cardinality(PushesOf(out[s][j].ev)) = 1

\* C17: every characteristicDidChange push of a callback that a successful
\* startNotifications({serviceId: S, characteristicId: C}) registered carries
\* serviceId S, characteristicId C, the base64 encoding of the payload as
\* message and the encoding "base64".
C17_PushNamesCharacteristic ==
  \A s \in Sessions : \A i, j \in DOMAIN out[s] :
    (/\ i < j
     /\ Enables(s, i)
     /\ reqs[s][out[s][i].req].msg.method = "startNotifications"
     /\ PushOf(s, j, ReqChar(s, out[s][i].req)))
    => \E buf \in Payloads :
         out[s][j].frame.params =
           [serviceId |-> out[s][j].svc, characteristicId |-> out[s][j].chr,
            message |-> B64Encode(buf), encoding |-> "base64"]

\* Request k of session s is a finished stopNotifications request, made with a
\* handle, on a characteristic no callback was registered on.
StopWithoutSubscription(s, k) ==
  /\ Finished(s, k)
  /\ reqs[s][k].msg.method = "stopNotifications"
  /\ NotificationsParamsFromJson(reqs[s][k].msg.params).err = ""
  /\ reqs[s][k].dev # 0
  /\ Registered(reqs[s][k].subs, ReqChar(s, k)) = {}

\* Request k of session s got a success reply with a null result.
NullReply(s, k) ==
  \E i \in RepliesTo(s, k) :
    out[s][i].frame.type = "Result" /\ out[s][i].frame.result = Null

\* A device call made for request k of session s returned an error.
CallFailed(s, k) ==
  \E i \in DOMAIN bleLog[s] : bleLog[s][i].req = k /\ bleLog[s][i].failed

\* The callbacks registered on the characteristics of handle dev.
SubsOn(sb, dev) == {x \in sb : x.dev = dev}

\* C18 as stated: in a connected session, stopNotifications on a
\* characteristic without an active subscription gets a success reply with a
\* null result and leaves the subscriptions as they were.
C18_StopWithoutSubscriptionSucceeds ==
  \A s \in Sessions : \A k \in DOMAIN reqs[s] :
    StopWithoutSubscription(s, k)
      => /\ NullReply(s, k)
         /\ k = Len(reqs[s]) => SubsOn(subs, reqs[s][k].dev) = SubsOn(reqs[s][k].subs, reqs[s][k].dev)

\* C18, amended: such a request gets a success reply with a null result
\* unless one of the device calls made for it (service discovery,
\* characteristic discovery, the disabling call) returns an error, and in
\* both cases it leaves the subscriptions as they were.
C18_StopWithoutSubscriptionUnlessCallFails ==
  \A s \in Sessions : \A k \in DOMAIN reqs[s] :
    StopWithoutSubscription(s, k)
      => /\ ~CallFailed(s, k) => NullReply(s, k)
         /\ k = Len(reqs[s]) => SubsOn(subs, reqs[s][k].dev) = SubsOn(reqs[s][k].subs, reqs[s][k].dev)

\* A stopNotifications request on a characteristic without a subscription
\* was answered with a null result.
C18_Witness ==
  \E s \in Sessions : \E k \in DOMAIN reqs[s] :
    StopWithoutSubscription(s, k) /\ NullReply(s, k)

EnableCallOk(s, k) ==
  /\ IsEnable(reqs[s][k])
  /\ \E i \in DOMAIN bleLog[s] :
       /\ bleLog[s][i].req = k
       /\ bleLog[s][i].op = "EnableNotifications"
       /\ ~bleLog[s][i].failed

CallsOf(s, k, op) == {i \in DOMAIN bleLog[s] : bleLog[s][i].req = k /\ bleLog[s][i].op = op}

\* The number of bytes a base64 text of the clients stands for.
ByteCount(str) == IF str = "" THEN 0 ELSE IF str = "Zg==" THEN 1 ELSE 2

\* Request r of session s reads the characteristic that request k wrote, on
\* the same handle, with no write between them; no device call of the two
\* failed, and the device returned to the read the bytes the write passed.
EchoedBack(s, k, r) ==
  /\ k < r /\ Finished(s, r)
  /\ reqs[s][k].msg.method = "write" /\ reqs[s][r].msg.method = "read"
  /\ reqs[s][k].dev # 0 /\ ReqChar(s, k) = ReqChar(s, r)
  /\ ~CallFailed(s, k) /\ ~CallFailed(s, r)
  /\ \A m \in (k + 1)..(r - 1) : CallsOf(s, m, "WriteWithoutResponse") = {}
  /\ \E i \in CallsOf(s, k, "WriteWithoutResponse") : \E j \in CallsOf(s, r, "Read") :
       bleLog[s][i].buf = bleLog[s][j].buf

\* C21: against a device that accepts every call and returns to a read the
\* bytes of the last write: a connect is answered with success (null); a
\* write of a base64 message that stands for n bytes is answered with result
\* n; a following read of the same characteristic is answered with the
\* base64 text that was written and encoding "base64".
C21_WriteReadRoundTrip ==
  \A s \in Sessions : \A k \in DOMAIN reqs[s] :
    /\ (/\ Finished(s, k) /\ reqs[s][k].msg.method = "connect"
        /\ CallsOf(s, k, "Connect") # {} /\ ~CallFailed(s, k))
       => NullReply(s, k)
    /\ (/\ Finished(s, k) /\ reqs[s][k].msg.method = "write"
        /\ CallsOf(s, k, "WriteWithoutResponse") # {} /\ ~CallFailed(s, k))
       => \E i \in RepliesTo(s, k) :
            /\ out[s][i].frame.type = "Result"
            /\ out[s][i].frame.result =
                 IntResult(ByteCount(UpdateParamsFromJson(reqs[s][k].msg.params).Message))
    /\ \A r \in DOMAIN reqs[s] :
         EchoedBack(s, k, r)
           => \E i \in RepliesTo(s, r) :
                /\ out[s][i].frame.type = "Result"
                /\ out[s][i].frame.result.s =
                     UpdateParamsFromJson(reqs[s][k].msg.params).Message
                /\ out[s][i].frame.encoding = "base64"

\* A session connected, wrote "Zg==", got the result 1 and read it back.
C21_Witness ==
  \E s \in Sessions : \E c, k, r \in DOMAIN reqs[s] :
    /\ c < k /\ NullReply(s, c) /\ reqs[s][c].msg.method = "connect"
    /\ EchoedBack(s, k, r)
    /\ UpdateParamsFromJson(reqs[s][k].msg.params).Message = "Zg=="
    /\ \E i \in RepliesTo(s, k) : out[s][i].frame.result = IntResult(1)
    /\ \E i \in RepliesTo(s, r) : out[s][i].frame.result.s = "Zg=="

\* The devices the scans have passed on: in a device channel, inside WsSend
\* or written as a push, each with the number of its scan.
DiscoveryResults ==
  UNION {{[scan |-> i, dev |-> scans[i].devices[j]] : j \in DOMAIN scans[i].devices} :
           i \in DOMAIN scans}
  \cup UNION {{[scan |-> p.src.scan, dev |-> p.frame.params] :
                 p \in {q \in pend[s] : q.src.scan # 0}} : s \in Sessions}
  \cup UNION {{[scan |-> out[s][j].scan, dev |-> out[s][j].frame.params] :
                 j \in {k \in DOMAIN out[s] : IsDiscoveryPush(out[s][k])}} : s \in Sessions}

\* The advertisement a discovered device was made from.
AdvertOf(dev) == CHOOSE a \in DiscoverAdverts : a.addr = dev.PeripheralId

\* C22: a device passed on by a scan whose discover named the single filter
\* {name: N}, N not empty, has the name N exactly; and no device passed on
\* by any scan has an empty name.
C22_OnlyNamedDevices ==
  \A x \in DiscoveryResults :
    /\ x.dev.Name # ""
    /\ (Len(scans[x.scan].filter) = 1 /\ scans[x.scan].filter[1].name # "")
         => x.dev.Name = scans[x.scan].filter[1].name

\* A push of a scan with the filter {name: "Foo"} was written.
C22_Witness ==
  \E s \in Sessions : \E j \in DOMAIN out[s] :
    /\ IsDiscoveryPush(out[s][j])
    /\ scans[out[s][j].scan].filter = <<FooFilter>>

\* C23: a device passed on by a scan whose discover named a single filter
\* with services comes from an advertisement whose service set holds every
\* one of those services.
C23_OnlyAdvertisedServices ==
  \A x \in DiscoveryResults :
    Len(scans[x.scan].filter) = 1
      => \A i \in DOMAIN scans[x.scan].filter[1].services :
           scans[x.scan].filter[1].services[i] \in AdvertOf(x.dev).services

\* A push of a scan with the filter {services: [S1, S2]} was written.
C23_Witness ==
  \E s \in Sessions : \E j \in DOMAIN out[s] :
    /\ IsDiscoveryPush(out[s][j])
    /\ scans[out[s][j].scan].filter = <<S1S2Filter>>

\* C24: when a session has read a frame that fills the read buffer, that
\* session is closed, no other session has ended because of it (a session
\* that ended by a panic has its own cause), and every other running
\* session can take its next step: read on, or handle its next request.
C24_TooBigEndsOneSession ==
  \A s \in Sessions :
    crash[s] = "too big"
      => /\ ~Alive(s)
         /\ \A t \in Sessions \ {s} :
              /\ pc[t] = "crashed" => crash[t] # ""
              /\ pc[t] = "read" => ENABLED WsReadEOF(t)
              /\ (Alive(t) /\ pc[t] # "read") => ENABLED Dispatch(t)

\* One session has ended on an oversize frame while the other one has read
\* a request and is about to handle it.
C24_Witness ==
  \E s, t \in Sessions :
    /\ crash[s] = "too big"
    /\ pc[t] = "range" /\ msgs[t] # <<>>

\* C25: a session whose read loop ended at end-of-stream or on a read or
\* decode fault, and whose handler has ended, has handled every request that
\* was read: none is left in the channel.
C25_NoRequestLost ==
  \A s \in Sessions :
    (~Alive(s) /\ crash[s] # "too big") => msgs[s] = <<>>

\* C26: once the handler of a session has returned, every scan the session
\* started has returned or has been asked to stop, and no discovery result
\* of the session is waiting to be written or inside WsSend.
C26_ScanStoppedAtTeardown ==
  \A s \in Sessions :
    pc[s] = "returned"
      => /\ \A i \in DOMAIN scans :
              scans[i].sess = s
                => (scans[i].gpc = "done" \/ scans[i].stop) /\ scans[i].devices = <<>>
         /\ \A p \in pend[s] : p.src.scan = 0

\* C27: once the handler of a session has returned, no connection the
\* session opened is open, no callback that writes to the session's
\* connection is registered and none is inside WsSend.
C27_ReleasedAtTeardown ==
  \A s \in Sessions :
    pc[s] = "returned"
      => /\ \A x \in conns : x.sess # s
         /\ \A x \in subs : x.cb.c # s
         /\ \A p \in pend[s] : p.src.dev = 0

\* The params j of a request for method are missing, are no object, or lack
\* a field the method needs.
InvalidParams(method, j) ==
  \/ j.kind # "obj"
  \/ method = "connect" /\ j.v.peripheralId = ""
  \/ method \in DeviceMethods
       /\ (j.v.serviceId = NilUUID \/ j.v.characteristicId = NilUUID)

\* C28: a finished request for discover, connect, startNotifications,
\* stopNotifications, write or read with such params got an error reply, no
\* adapter or device call was made for it and it started no scan; and right
\* after it the handle and the subscriptions are what they were before it.
C28_InvalidParamsRejected ==
  \A s \in Sessions : \A k \in DOMAIN reqs[s] :
    (/\ Finished(s, k)
     /\ reqs[s][k].msg.method \in ParamMethods
     /\ InvalidParams(reqs[s][k].msg.method, reqs[s][k].msg.params))
    => /\ \E i \in RepliesTo(s, k) : out[s][i].frame.type = "Error"
       /\ \A i \in DOMAIN bleLog[s] : bleLog[s][i].req # k
       /\ \A i \in DOMAIN scans : ~(scans[i].sess = s /\ scans[i].req = k)
       /\ k = Len(reqs[s]) => (DEVICE[s] = reqs[s][k].dev /\ subs = reqs[s][k].subs)

\* C29: when a device call made for a startNotifications, stopNotifications,
\* write or read request failed, the request got an error reply that carries
\* the failure, and right after it the handle and the subscriptions are what
\* they were before it.
C29_DeviceErrorChangesNothing ==
  \A s \in Sessions :
    LET k == Len(reqs[s])
    IN (/\ k > 0 /\ Finished(s, k)
        /\ reqs[s][k].msg.method \in DeviceMethods
        /\ CallFailed(s, k))
       => /\ \E i \in RepliesTo(s, k) :
               out[s][i].frame.type = "Error" /\ out[s][i].frame.error \in DeviceErrors
          /\ DEVICE[s] = reqs[s][k].dev
          /\ subs = reqs[s][k].subs

\* C30: a finished discover request whose adapter.Scan call failed got an
\* error reply and no success reply.
C30_ScanFailureIsReported ==
  \A i \in DOMAIN scans :
    (scans[i].err /\ Finished(scans[i].sess, scans[i].req))
      => /\ \E j \in RepliesTo(scans[i].sess, scans[i].req) :
              out[scans[i].sess][j].frame.type = "Error"
         /\ \A j \in RepliesTo(scans[i].sess, scans[i].req) :
              out[scans[i].sess][j].frame.type # "Result"

\* ------------------------------------------------------------ C31 .. C36
\* The dispatcher of session s takes a request for method in this step.
Takes(s, method) ==
  /\ Len(reqs'[s]) = Len(reqs[s]) + 1
  /\ reqs'[s][Len(reqs'[s])].msg.method = method

\* C31: the step in which the dispatcher takes a getVersion request writes
\* one frame, the result {protocol: "1.3"} with the id of the request,
\* whatever the handle and the scans are; it makes no adapter or device call
\* and leaves the handle, the open connections, the subscriptions and the
\* scans as they are.
C31_GetVersionIsStatic ==
  [][\A s \in Sessions :
       Takes(s, "getVersion")
         => /\ Len(out'[s]) = Len(out[s]) + 1
            /\ out'[s][Len(out'[s])].frame =
                 [type |-> "Result", id |-> reqs'[s][Len(reqs'[s])].msg.id,
                  jsonrpc |-> "2.0", result |-> [t |-> "protocol", n |-> 0, s |-> "1.3"],
                  encoding |-> ""]
            /\ UNCHANGED <<DEVICE, conns, subs, scans, bleLog>>]_vars

\* getVersion was answered in a session that holds a handle, and in a
\* session with a scan of its own not stopped.
C31_Witness ==
  \E s \in Sessions : \E k \in DOMAIN reqs[s] :
    /\ reqs[s][k].msg.method = "getVersion"
    /\ \E i \in RepliesTo(s, k) : out[s][i].frame.result = Version
    /\ \/ reqs[s][k].dev # 0
       \/ \E i \in DOMAIN scans :
            scans[i].sess = s /\ scans[i].req < k /\ scans[i].gpc = "scanning" /\ ~scans[i].stop

\* Request k of session s is a finished read with startNotifications true.
ReadAndSubscribe(s, k) ==
  /\ Finished(s, k)
  /\ reqs[s][k].msg.method = "read"
  /\ ReadParamsFromJson(reqs[s][k].msg.params).err = ""
  /\ ReadParamsFromJson(reqs[s][k].msg.params).StartNotifications

\* C32: in a read with startNotifications true, char.Read is called only
\* after the enabling call has returned without error; and when the enabling
\* call fails the request gets an error reply and char.Read is not called.
C32_EnableBeforeRead ==
  \A s \in Sessions : \A k \in DOMAIN reqs[s] :
    ReadAndSubscribe(s, k)
      => /\ \A j \in CallsOf(s, k, "Read") :
              \E i \in CallsOf(s, k, "EnableNotifications") :
                i < j /\ ~bleLog[s][i].failed
         /\ (\E i \in CallsOf(s, k, "EnableNotifications") : bleLog[s][i].failed)
              => /\ \E i \in RepliesTo(s, k) : out[s][i].frame.type = "Error"
                 /\ CallsOf(s, k, "Read") = {}

\* A read with startNotifications true has enabled and then read.
C32_Witness ==
  \E s \in Sessions : \E k \in DOMAIN reqs[s] :
    /\ ReadAndSubscribe(s, k)
    /\ CallsOf(s, k, "Read") # {}
    /\ \E i \in RepliesTo(s, k) : out[s][i].frame.type = "Result"

\* The result and error frames written while request k of session s was
\* handled.
ReplyFrames(s, k) == {i \in RepliesTo(s, k) : IsReply(out[s][i])}

\* C36: for every request the dispatcher has taken, at most one result or
\* error frame has been written while it was handled.
C36_AtMostOneReply ==
  \A s \in Sessions : \A k \in DOMAIN reqs[s] : Cardinality(ReplyFrames(s, k)) <= 1

\* A request one of whose device calls failed has left its handler with one
\* reply, after a request that got one reply too.
C36_Witness ==
  \E s \in Sessions : \E k \in DOMAIN reqs[s] :
    /\ k > 1 /\ Finished(s, k) /\ CallFailed(s, k)
    /\ Cardinality(ReplyFrames(s, k)) = 1
    /\ Cardinality(ReplyFrames(s, k - 1)) = 1

\* The device the callback sends for an advertisement.
DeviceOf(a) == [PeripheralId |-> a.addr, Name |-> a.name, RSSI |-> a.rssi]

\* A filter is satisfied by an advertisement; all filters of a list are.
Satisfies(a, f) ==
  /\ f.name = "" \/ f.name = a.name
  /\ \A k \in DOMAIN f.services : f.services[k] \in a.services
SatisfiesAll(a, fs) == \A k \in DOMAIN fs : Satisfies(a, fs[k])

\* The devices of the advertisements scan i has found that have a local name
\* and satisfy its filters, in the order the callback found them.
Wanted(i) ==
  LET Ok(a) == a.name # "" /\ SatisfiesAll(a, scans[i].filter)
      as == SelectSeq(scans[i].found, Ok)
  IN [k \in 1..Len(as) |-> DeviceOf(as[k])]

\* The frames written to the session of scan i that come from its forwarder,
\* in the order written, and the frame its forwarder has inside WsSend.
FromScan(i) ==
  LET Mine(e) == e.scan = i
  IN SelectSeq(out[scans[i].sess], Mine)
InSend(i) ==
  LET ps == {p \in pend[scans[i].sess] : p.src.scan = i}
  IN IF ps = {} THEN <<>> ELSE <<(CHOOSE p \in ps : TRUE).frame>>

\* C33: while the session of a scan is open, the devices of the named
\* advertisements that satisfy its filters are, in the order the callback found
\* them: the ones written as didDiscoverPeripheral pushes, one push each, then
\* the one being written, then the ones waiting in the device channel. The
\* channel holds at most 10 devices; when it is full the callback cannot send,
\* and the forwarder can always take the next device or finish its write.
C33_ForwardedOnceInOrder ==
  \A i \in DOMAIN scans :
    Alive(scans[i].sess)
      => /\ \A k \in DOMAIN FromScan(i) :
              /\ FromScan(i)[k].frame.type = "Msg"
              /\ FromScan(i)[k].frame.method = "didDiscoverPeripheral"
         /\ Cardinality({p \in pend[scans[i].sess] : p.src.scan = i}) <= 1
         /\ Wanted(i) = [k \in DOMAIN FromScan(i) |-> FromScan(i)[k].frame.params]
                           \o [k \in DOMAIN InSend(i) |-> InSend(i)[k].params]
                           \o scans[i].devices
         /\ Len(scans[i].devices) <= DevicesCap
         /\ Len(scans[i].devices) = DevicesCap
              => ~ENABLED (ChannelScanCallback(i) /\ scans'[i].devices # scans[i].devices)
         /\ (scans[i].devices # <<>> /\ InSend(i) = <<>>) => ENABLED Forward(i)
         /\ InSend(i) # <<>> => ENABLED PushWrite(scans[i].sess)

\* The channel of a scan is full again after the forwarder has taken devices
\* from it, a push has been written to the open session, and the callback has
\* dropped an unnamed advertisement and one that does not satisfy the filter.
C33_Witness ==
  \E i \in DOMAIN scans :
    /\ Alive(scans[i].sess)
    /\ Len(scans[i].devices) = DevicesCap
    /\ ncb = MaxChannelCallbacks
    /\ FromScan(i) # <<>>
    /\ Len(Wanted(i)) < Len(scans[i].found)

\* Scan i has logged one more advertisement in this step: matchDevice has
\* been applied to it and to the filters of the scan.
Matched(i) ==
  /\ i \in DOMAIN scans'
  /\ Len(scans'[i].found) = Len(scans[i].found) + 1

C35_ReadLoopNeverBlocks ==
  \A s \in Sessions : pc[s] = "read" => Len(msgs[s]) < MsgsCap

====
